---- MODULE Spec2Model ----
(***************************************************************************)
(* Storage engine of the bucket service (src/app/main.py, src/app/auth.py). *)
(*                                                                         *)
(* State: the two MongoDB collections the handlers use (buckets, files),   *)
(* the directories and files under STORAGE_PATH, the ObjectId generator,   *)
(* and one record per request handler in flight (its position in the       *)
(* handler and its local variables).  One action per store call of a       *)
(* handler: a MongoDB call or a filesystem call is atomic, two calls of    *)
(* one handler are not (several server processes share the database and    *)
(* the storage directory).                                                 *)
(*                                                                         *)
(* File names are single path components; file contents are abstracted to  *)
(* (length, tag) pairs: the handlers only copy contents and measure them.  *)
(***************************************************************************)
EXTENDS Integers, FiniteSets, Sequences, TLC

(* ------------------------------ bounds -------------------------------- *)
MaxBucketId == 2
MaxFileId == 2
(* File ids available where three uploads run at once. *)
MaxQuotaFileId == 3

(* Quota of auth.py, scaled from 1 GiB to the 100 bytes of the spec's      *)
(* scenario so that the sizes below can reach and cross it.                *)
STORAGE_LIMIT_BYTES == 100

Procs == {1, 2, 3}
Owners == {"u1", "u2"}
BucketNames == {"b1", "b2"}
FileNames == {"f1", "f2"}

Content(n, t) == [len |-> n, tag |-> t]
Absent == Content(-1, "none")
(* What a failed write can leave behind: the file opened, nothing written. *)
Truncated == Content(0, "none")

Paths == Owners \X BucketNames \X FileNames

VARIABLES buckets, files, dirs, blobs, nextBucketId, nextFileId, proc, pre, acked

stores == <<buckets, files, dirs, blobs, nextBucketId, nextFileId>>
vars == <<buckets, files, dirs, blobs, nextBucketId, nextFileId, proc, pre, acked>>

(* ------------------------------ documents ----------------------------- *)
NoDoc == [id |-> 0, filename |-> "", bucket_id |-> 0, user_id |-> "", size |-> 0,
          file_path |-> <<"", "", "">>]

bucket_doc(id, name, user_id) ==
    [id |-> id, name |-> name, user_id |-> user_id, file_count |-> 0, total_size |-> 0]

file_doc(id, filename, bucket_id, user_id, size, file_path) ==
    [id |-> id, filename |-> filename, bucket_id |-> bucket_id, user_id |-> user_id,
     size |-> size, file_path |-> file_path]

RECURSIVE SumSizes(_)
SumSizes(S) ==
    IF S = {} THEN 0
    ELSE LET d == CHOOSE x \in S : TRUE IN d.size + SumSizes(S \ {d})

get_user_storage_usage(fs, user_id) == SumSizes({d \in fs : d.user_id = user_id})

(* The comparison made strict: an upload that fills the quota exactly is refused. *)
check_storage_limit_strict(fs, user_id, file_size) ==
    get_user_storage_usage(fs, user_id) + file_size < STORAGE_LIMIT_BYTES

check_storage_limit(fs, user_id, file_size) ==
    get_user_storage_usage(fs, user_id) + file_size <= STORAGE_LIMIT_BYTES

(* buckets_collection.find({"name": name, "user_id": user_id}) *)
find_buckets(bs, name, user_id) == {b \in bs : b.name = name /\ b.user_id = user_id}

(* files_collection.find({"bucket_id": bucket_id, "filename": filename}) *)
find_files(fs, bucket_id, filename) ==
    {d \in fs : d.bucket_id = bucket_id /\ d.filename = filename}

(* The $inc without its total_size field. *)
inc_bucket_count_only(bs, id, dcount, dsize) ==
    {IF b.id = id THEN [b EXCEPT !.file_count = @ + dcount] ELSE b : b \in bs}

(* buckets_collection.update_one({"_id": id}, {"$inc": ...}) *)
inc_bucket(bs, id, dcount, dsize) ==
    {IF b.id = id
        THEN [b EXCEPT !.file_count = @ + dcount, !.total_size = @ + dsize]
        ELSE b : b \in bs}

(* shutil.rmtree(bucket_path) on the files of the tree *)
rmtree(bl, user_id, name) ==
    [x \in Paths |-> IF x[1] = user_id /\ x[2] = name THEN Absent ELSE bl[x]]

(* ---------------------------- bucket names ---------------------------- *)
(* A name is a string of characters; the model keeps one token per name    *)
(* and name_chars gives its characters.  "U+00E9" is a non-ASCII letter.   *)
AsciiLetters == {"a", "b"}
AsciiDigits == {"1", "2"}
UnicodeLetters == {"U+00E9"}
Whitespace == {" "}

name_chars(n) ==
    CASE n = "" -> <<>>
      [] n = " " -> <<" ">>
      [] n = "-" -> <<"-">>
      [] n = "__" -> <<"_", "_">>
      [] n = "b1" -> <<"b", "1">>
      [] n = "b2" -> <<"b", "2">>
      [] n = "a-1_" -> <<"a", "-", "1", "_">>
      [] n = "a b" -> <<"a", " ", "b">>
      [] n = "a/b" -> <<"a", "/", "b">>
      [] n = "b<U+00E9>" -> <<"b", "U+00E9">>

(* str.replace(c, "") *)
str_replace(s, c) == SelectSeq(s, LAMBDA x : x # c)

(* str.strip() *)
RECURSIVE str_strip(_)
str_strip(s) ==
    IF s = <<>> THEN s
    ELSE IF Head(s) \in Whitespace THEN str_strip(Tail(s))
    ELSE IF s[Len(s)] \in Whitespace THEN str_strip(SubSeq(s, 1, Len(s) - 1))
    ELSE s

(* str.isalnum(): non-empty and every character a letter or a digit of any script *)
str_isalnum(s) ==
    /\ s # <<>>
    /\ \A i \in 1..Len(s) : s[i] \in AsciiLetters \cup AsciiDigits \cup UnicodeLetters

(* The two checks at the head of create_bucket. *)
valid_bucket_name(n) ==
    LET name == name_chars(n) IN
    /\ ~(name = <<>> \/ str_strip(name) = <<>>)
    /\ str_isalnum(str_replace(str_replace(name, "-"), "_"))

(* ------------------------------ handlers ------------------------------ *)
Idle ==
    [op |-> "none", pc |-> "idle", user |-> "", bucket_name |-> "", filename |-> "",
     file_content |-> Absent, bucket_id |-> 0, file_doc |-> NoDoc, file_size |-> 0,
     inserted_id |-> 0, result |-> "", body |-> Absent, listing |-> {},
     bucket_listing |-> {}, fault |-> "none"]

Snapshot == [buckets |-> buckets, files |-> files, dirs |-> dirs, blobs |-> blobs]
NoSnapshot ==
    [buckets |-> {}, files |-> {}, dirs |-> {}, blobs |-> [x \in Paths |-> Absent]]

Init ==
    /\ buckets = {}
    /\ files = {}
    /\ dirs = {}
    /\ blobs = [x \in Paths |-> Absent]
    /\ nextBucketId = 1
    /\ nextFileId = 1
    /\ proc = [p \in Procs |-> Idle]
    /\ pre = NoSnapshot
    /\ acked = {}

InFlight(op) == Cardinality({p \in Procs : proc[p].op = op /\ proc[p].pc # "done"})

Goto(p, pc) == proc' = [proc EXCEPT ![p].pc = pc]
Finish(p, result) == proc' = [proc EXCEPT ![p].pc = "done", ![p].result = result]

Call(p, op, pc, user, name, filename, content, fault) ==
    /\ proc[p].pc = "idle"
    /\ proc' = [proc EXCEPT ![p] =
           [Idle EXCEPT !.op = op, !.pc = pc, !.user = user, !.bucket_name = name,
                        !.filename = filename, !.file_content = content, !.fault = fault]]
    /\ UNCHANGED stores

(* Every handler starts with buckets_collection.find_one(name, user_id).   *)
FindBucket(p, op, pc, next) ==
    /\ proc[p].op = op
    /\ proc[p].pc = pc
    /\ LET found == find_buckets(buckets, proc[p].bucket_name, proc[p].user) IN
          IF found = {}
             THEN Finish(p, "NotFound")
             ELSE \E b \in found : proc' = [proc EXCEPT ![p].pc = next, ![p].bucket_id = b.id]
    /\ UNCHANGED <<stores, pre, acked>>

(* files_collection.find_one({"bucket_id": bucket_id, "filename": filename}) *)
FindFileDoc(p, op, pc, next) ==
    /\ proc[p].op = op
    /\ proc[p].pc = pc
    /\ LET found == find_files(files, proc[p].bucket_id, proc[p].filename) IN
          IF found = {}
             THEN Finish(p, "NotFound")
             ELSE \E d \in found : proc' = [proc EXCEPT ![p].pc = next, ![p].file_doc = d]
    /\ UNCHANGED <<stores, pre, acked>>

(* ---- create_bucket ---- *)
call_create_bucket(p, U, N, Faults) ==
    /\ nextBucketId + InFlight("create_bucket") <= MaxBucketId
    /\ proc[p].pc = "idle"
    /\ \E u \in U, n \in N, f \in Faults :
          proc' = [proc EXCEPT ![p] =
             [Idle EXCEPT !.op = "create_bucket", !.user = u, !.bucket_name = n, !.fault = f,
                          !.pc = IF valid_bucket_name(n) THEN "cb_find" ELSE "done",
                          !.result = IF valid_bucket_name(n) THEN "" ELSE "InvalidName"]]
    /\ UNCHANGED stores

create_bucket_find(p) ==
    /\ proc[p].pc = "cb_find"
    /\ IF find_buckets(buckets, proc[p].bucket_name, proc[p].user) # {}
          THEN Finish(p, "AlreadyExists")
          ELSE Goto(p, "cb_makedirs")
    /\ UNCHANGED <<stores, pre, acked>>

create_bucket_makedirs(p) ==
    /\ proc[p].pc = "cb_makedirs"
    /\ LET d == <<proc[p].user, proc[p].bucket_name>> IN
          IF d \in dirs \/ proc[p].fault = "makedirs"
             THEN Goto(p, "cb_except") /\ UNCHANGED dirs
             ELSE Goto(p, "cb_insert") /\ dirs' = dirs \cup {d}
    /\ UNCHANGED <<buckets, files, blobs, nextBucketId, nextFileId, pre, acked>>

create_bucket_insert(p) ==
    /\ proc[p].pc = "cb_insert"
    /\ IF proc[p].fault = "insert"
          THEN Goto(p, "cb_except") /\ UNCHANGED <<buckets, nextBucketId>>
          ELSE /\ buckets' = buckets \cup
                     {bucket_doc(nextBucketId, proc[p].bucket_name, proc[p].user)}
               /\ nextBucketId' = nextBucketId + 1
               /\ proc' = [proc EXCEPT ![p].pc = "done", ![p].result = "ok",
                                       ![p].inserted_id = nextBucketId]
    /\ UNCHANGED <<files, dirs, blobs, nextFileId, pre, acked>>

create_bucket_except(p) ==
    /\ proc[p].pc = "cb_except"
    /\ LET d == <<proc[p].user, proc[p].bucket_name>> IN
          IF d \in dirs
             THEN dirs' = dirs \ {d} /\ blobs' = rmtree(blobs, d[1], d[2])
             ELSE UNCHANGED <<dirs, blobs>>
    /\ Finish(p, "StorageError")
    /\ UNCHANGED <<buckets, files, nextBucketId, nextFileId, pre, acked>>

(* ---- delete_bucket ---- *)
call_delete_bucket(p, U, N) ==
    \E u \in U, n \in N :
        Call(p, "delete_bucket", "db_find", u, n, "", Absent, "none")

delete_bucket_find(p) == FindBucket(p, "delete_bucket", "db_find", "db_delete_many")

(* The delete_many filtering on the bucket name of another bucket: nothing matches. *)
delete_bucket_delete_many_none(p) ==
    /\ proc[p].pc = "db_delete_many"
    /\ Goto(p, "db_rmtree")
    /\ UNCHANGED <<stores, pre, acked>>

(* The steps in another order: the blob subtree goes first, while the     *)
(* FileRecords are still there.                                            *)
delete_bucket_delete_many_blobs_first(p) ==
    /\ proc[p].pc = "db_delete_many"
    /\ LET d == <<proc[p].user, proc[p].bucket_name>> IN
          IF d \in dirs
             THEN dirs' = dirs \ {d} /\ blobs' = rmtree(blobs, d[1], d[2])
             ELSE UNCHANGED <<dirs, blobs>>
    /\ Goto(p, "db_rmtree")
    /\ UNCHANGED <<buckets, files, nextBucketId, nextFileId, pre, acked>>

delete_bucket_delete_many(p) ==
    /\ proc[p].pc = "db_delete_many"
    /\ files' = {d \in files : d.bucket_id # proc[p].bucket_id}
    /\ Goto(p, "db_rmtree")
    /\ UNCHANGED <<buckets, dirs, blobs, nextBucketId, nextFileId, pre, acked>>

delete_bucket_rmtree(p) ==
    /\ proc[p].pc = "db_rmtree"
    /\ LET d == <<proc[p].user, proc[p].bucket_name>> IN
          IF d \in dirs
             THEN dirs' = dirs \ {d} /\ blobs' = rmtree(blobs, d[1], d[2])
             ELSE UNCHANGED <<dirs, blobs>>
    /\ Goto(p, "db_delete_one")
    /\ UNCHANGED <<buckets, files, nextBucketId, nextFileId, pre, acked>>

delete_bucket_delete_one(p) ==
    /\ proc[p].pc = "db_delete_one"
    /\ buckets' = {b \in buckets : b.id # proc[p].bucket_id}
    /\ Finish(p, "ok")
    /\ UNCHANGED <<files, dirs, blobs, nextBucketId, nextFileId, pre, acked>>

(* ---- upload_file ---- *)
(* file.filename as the client sent it: its components between "/". *)
filename_parts(fn) ==
    CASE fn = "f1" -> <<"f1">>
      [] fn = "f2" -> <<"f2">>
      [] fn = "../../u2/b1/f1" -> <<"..", "..", "u2", "b1", "f1">>

(* The file a path names below STORAGE_PATH: ".." leaves a directory. *)
RECURSIVE resolve(_, _)
resolve(at, parts) ==
    IF parts = <<>> THEN at
    ELSE IF Head(parts) = ".." THEN resolve(SubSeq(at, 1, Len(at) - 1), Tail(parts))
    ELSE resolve(Append(at, Head(parts)), Tail(parts))

(* file_path = os.path.join(bucket_path, file.filename) *)
file_path(p) ==
    resolve(<<proc[p].user, proc[p].bucket_name>>, filename_parts(proc[p].filename))

(* The directories a use of file_path walks through. *)
path_dirs(p) == {<<proc[p].user, proc[p].bucket_name>>, <<file_path(p)[1], file_path(p)[2]>>}

call_upload_file(p, U, N, FN, C, Faults, reserve) ==
    /\ reserve => nextFileId + InFlight("upload_file") <= MaxFileId
    /\ \E u \in U, n \in N, fn \in FN, c \in C, f \in Faults :
          Call(p, "upload_file", "uf_find", u, n, fn, c, f)

upload_file_find(p) == FindBucket(p, "upload_file", "uf_find", "uf_quota")

upload_file_quota(p) ==
    /\ proc[p].pc = "uf_quota"
    /\ IF check_storage_limit(files, proc[p].user, proc[p].file_content.len)
          THEN Goto(p, "uf_exists")
          ELSE Finish(p, "QuotaExceeded")
    /\ UNCHANGED <<stores, pre, acked>>

(* The handler without its existence check. *)
upload_file_exists_skipped(p) ==
    /\ proc[p].pc = "uf_exists"
    /\ Goto(p, "uf_write")
    /\ UNCHANGED <<stores, pre, acked>>

(* os.path.exists(file_path) *)
upload_file_exists(p) ==
    /\ proc[p].pc = "uf_exists"
    /\ IF path_dirs(p) \subseteq dirs /\ blobs[file_path(p)] # Absent
          THEN Finish(p, "AlreadyExists")
          ELSE Goto(p, "uf_write")
    /\ UNCHANGED <<stores, pre, acked>>

(* The write re-encoding the content: same length, other bytes. *)
upload_file_write_recoded(p) ==
    /\ proc[p].pc = "uf_write"
    /\ IF ~(path_dirs(p) \subseteq dirs)
          THEN Goto(p, "uf_except") /\ UNCHANGED blobs
          ELSE /\ Goto(p, "uf_insert")
               /\ blobs' = [blobs EXCEPT ![file_path(p)] =
                               Content(proc[p].file_content.len, "a")]
    /\ UNCHANGED <<buckets, files, dirs, nextBucketId, nextFileId, pre, acked>>

(* open(file_path, "wb") and buffer.write(file_content): open fails without *)
(* the bucket directory, and truncates whatever is at file_path.            *)
upload_file_write(p) ==
    /\ proc[p].pc = "uf_write"
    /\ IF ~(path_dirs(p) \subseteq dirs)
          THEN Goto(p, "uf_except") /\ UNCHANGED blobs
          ELSE IF proc[p].fault = "write"
             THEN /\ Goto(p, "uf_except")
                  /\ \/ UNCHANGED blobs
                     \/ blobs' = [blobs EXCEPT ![file_path(p)] = Truncated]
             ELSE /\ Goto(p, "uf_insert")
                  /\ blobs' = [blobs EXCEPT ![file_path(p)] = proc[p].file_content]
    /\ UNCHANGED <<buckets, files, dirs, nextBucketId, nextFileId, pre, acked>>

upload_file_insert(p, max_id) ==
    /\ proc[p].pc = "uf_insert"
    /\ proc[p].fault = "insert" \/ nextFileId <= max_id
    /\ IF proc[p].fault = "insert"
          THEN Goto(p, "uf_except") /\ UNCHANGED <<files, nextFileId>>
          ELSE /\ files' = files \cup
                     {file_doc(nextFileId, proc[p].filename, proc[p].bucket_id,
                               proc[p].user, proc[p].file_content.len, file_path(p))}
               /\ nextFileId' = nextFileId + 1
               /\ proc' = [proc EXCEPT ![p].pc = "uf_inc", ![p].inserted_id = nextFileId]
    /\ UNCHANGED <<buckets, dirs, blobs, nextBucketId, pre, acked>>

upload_file_inc(p) ==
    /\ proc[p].pc = "uf_inc"
    /\ IF proc[p].fault = "inc"
          THEN Goto(p, "uf_except") /\ UNCHANGED buckets
          ELSE /\ buckets' = inc_bucket(buckets, proc[p].bucket_id, 1,
                                        proc[p].file_content.len)
               /\ Finish(p, "ok")
    /\ UNCHANGED <<files, dirs, blobs, nextBucketId, nextFileId, pre, acked>>

upload_file_except(p) ==
    /\ proc[p].pc = "uf_except"
    /\ IF path_dirs(p) \subseteq dirs /\ blobs[file_path(p)] # Absent
          THEN blobs' = [blobs EXCEPT ![file_path(p)] = Absent]
          ELSE UNCHANGED blobs
    /\ Finish(p, "StorageError")
    /\ UNCHANGED <<buckets, files, dirs, nextBucketId, nextFileId, pre, acked>>

(* ---- list_buckets, get_bucket ---- *)
bucket_summary(b) ==
    [id |-> b.id, name |-> b.name, file_count |-> b.file_count, total_size |-> b.total_size]

call_list_buckets(p, U) ==
    \E u \in U : Call(p, "list_buckets", "lb_list", u, "", "", Absent, "none")

list_buckets_list(p) ==
    /\ proc[p].pc = "lb_list"
    /\ proc' = [proc EXCEPT ![p].pc = "done", ![p].result = "ok",
                  ![p].bucket_listing =
                      {bucket_summary(b) : b \in {x \in buckets : x.user_id = proc[p].user}}]
    /\ UNCHANGED <<stores, pre, acked>>

call_get_bucket(p, U, N) ==
    \E u \in U, n \in N : Call(p, "get_bucket", "gb_find", u, n, "", Absent, "none")

get_bucket_find(p) ==
    /\ proc[p].pc = "gb_find"
    /\ LET found == find_buckets(buckets, proc[p].bucket_name, proc[p].user) IN
          IF found = {}
             THEN Finish(p, "NotFound")
             ELSE \E b \in found :
                     proc' = [proc EXCEPT ![p].pc = "done", ![p].result = "ok",
                                          ![p].bucket_listing = {bucket_summary(b)}]
    /\ UNCHANGED <<stores, pre, acked>>

(* ---- list_files ---- *)
call_list_files(p, U, N) ==
    \E u \in U, n \in N :
        Call(p, "list_files", "lf_find", u, n, "", Absent, "none")

list_files_find(p) == FindBucket(p, "list_files", "lf_find", "lf_list")

list_files_list(p) ==
    /\ proc[p].pc = "lf_list"
    /\ proc' = [proc EXCEPT ![p].pc = "done", ![p].result = "ok",
                  ![p].listing = {[id |-> d.id, filename |-> d.filename, size |-> d.size] :
                                     d \in {x \in files : x.bucket_id = proc[p].bucket_id}}]
    /\ UNCHANGED <<stores, pre, acked>>

(* ---- download_file ---- *)
call_download_file(p, U, N, FN) ==
    \E u \in U, n \in N, fn \in FN :
        Call(p, "download_file", "df_find", u, n, fn, Absent, "none")

download_file_find(p) == FindBucket(p, "download_file", "df_find", "df_find_doc")

download_file_find_doc(p) == FindFileDoc(p, "download_file", "df_find_doc", "df_send")

(* A download that drops the FileRecord when it finds the blob missing. *)
download_file_send_drops_record(p) ==
    /\ proc[p].pc = "df_send"
    /\ IF blobs[proc[p].file_doc.file_path] = Absent
          THEN /\ Finish(p, "NotFoundOnDisk")
               /\ files' = {d \in files : d.id # proc[p].file_doc.id}
          ELSE /\ proc' = [proc EXCEPT ![p].pc = "done", ![p].result = "ok",
                                       ![p].body = blobs[proc[p].file_doc.file_path]]
               /\ UNCHANGED files
    /\ UNCHANGED <<buckets, dirs, blobs, nextBucketId, nextFileId, pre, acked>>

(* os.path.exists(file_path) and the FileResponse of the file at file_path *)
download_file_send(p) ==
    /\ proc[p].pc = "df_send"
    /\ IF blobs[proc[p].file_doc.file_path] = Absent
          THEN Finish(p, "NotFoundOnDisk")
          ELSE proc' = [proc EXCEPT ![p].pc = "done", ![p].result = "ok",
                                    ![p].body = blobs[proc[p].file_doc.file_path]]
    /\ UNCHANGED <<stores, pre, acked>>

(* ---- delete_file ---- *)
call_delete_file(p, U, N, FN) ==
    \E u \in U, n \in N, fn \in FN :
        Call(p, "delete_file", "xf_find", u, n, fn, Absent, "none")

delete_file_find(p) == FindBucket(p, "delete_file", "xf_find", "xf_find_doc")

delete_file_find_doc(p) == FindFileDoc(p, "delete_file", "xf_find_doc", "xf_remove")

(* The handler without its os.remove. *)
delete_file_remove_keeps_blob(p) ==
    /\ proc[p].pc = "xf_remove"
    /\ proc' = [proc EXCEPT ![p].pc = "xf_delete_one",
                            ![p].file_size = proc[p].file_doc.size]
    /\ UNCHANGED <<stores, pre, acked>>

(* os.path.exists / os.path.getsize / os.remove, or the recorded size *)
delete_file_remove(p) ==
    /\ proc[p].pc = "xf_remove"
    /\ LET path == proc[p].file_doc.file_path IN
          IF blobs[path] # Absent
             THEN /\ proc' = [proc EXCEPT ![p].pc = "xf_delete_one",
                                          ![p].file_size = blobs[path].len]
                  /\ blobs' = [blobs EXCEPT ![path] = Absent]
             ELSE /\ proc' = [proc EXCEPT ![p].pc = "xf_delete_one",
                                          ![p].file_size = proc[p].file_doc.size]
                  /\ UNCHANGED blobs
    /\ UNCHANGED <<buckets, files, dirs, nextBucketId, nextFileId, pre, acked>>

delete_file_delete_one(p) ==
    /\ proc[p].pc = "xf_delete_one"
    /\ files' = {d \in files : d.id # proc[p].file_doc.id}
    /\ Goto(p, "xf_inc")
    /\ UNCHANGED <<buckets, dirs, blobs, nextBucketId, nextFileId, pre, acked>>

delete_file_inc(p) ==
    /\ proc[p].pc = "xf_inc"
    /\ buckets' = inc_bucket(buckets, proc[p].bucket_id, -1, -proc[p].file_size)
    /\ Finish(p, "ok")
    /\ UNCHANGED <<files, dirs, blobs, nextBucketId, nextFileId, pre, acked>>

(* ------------------------------ requests ------------------------------ *)
Quiet == \A p \in Procs : proc[p].pc \in {"idle", "done"}

(* The response leaves the server; the handler's record is freed. *)
Return(p) ==
    /\ proc[p].pc = "done"
    /\ proc' = [proc EXCEPT ![p] = Idle]
    /\ UNCHANGED <<stores, pre, acked>>

(* Sequential client: it keeps the bytes of the uploads the server has      *)
(* acknowledged, for the files that still exist.                            *)
ReturnSeq(p) ==
    /\ proc[p].pc = "done"
    /\ proc' = [proc EXCEPT ![p] = Idle]
    /\ pre' = NoSnapshot
    /\ acked' = {a \in acked \cup
                    (IF proc[p].op = "upload_file" /\ proc[p].result = "ok"
                        THEN {[id |-> proc[p].inserted_id, bytes |-> proc[p].file_content]}
                        ELSE {}) :
                    \E d \in files : d.id = a.id}
    /\ UNCHANGED stores

StepWrite(p) ==
    \/ create_bucket_find(p) \/ create_bucket_makedirs(p) \/ create_bucket_insert(p)
    \/ delete_bucket_find(p) \/ delete_bucket_delete_many(p)
    \/ delete_bucket_rmtree(p) \/ delete_bucket_delete_one(p)
    \/ upload_file_find(p) \/ upload_file_quota(p) \/ upload_file_exists(p)
    \/ upload_file_write(p) \/ upload_file_insert(p, MaxFileId) \/ upload_file_inc(p)
    \/ delete_file_find(p) \/ delete_file_find_doc(p) \/ delete_file_remove(p)
    \/ delete_file_delete_one(p) \/ delete_file_inc(p)

StepUpload(p, max_id) ==
    \/ upload_file_find(p) \/ upload_file_quota(p) \/ upload_file_exists(p)
    \/ upload_file_write(p) \/ upload_file_insert(p, max_id) \/ upload_file_inc(p)

(* The except clauses of create_bucket and upload_file. *)
StepExcept(p) == create_bucket_except(p) \/ upload_file_except(p)

StepRead(p) ==
    \/ list_files_find(p) \/ list_files_list(p)
    \/ download_file_find(p) \/ download_file_find_doc(p) \/ download_file_send(p)

RequestWrite(p, U, N, FN, C, BF, UF, reserve) ==
    \/ call_create_bucket(p, U, N, BF)
    \/ call_delete_bucket(p, U, N)
    \/ call_upload_file(p, U, N, FN, C, UF, reserve)
    \/ call_delete_file(p, U, N, FN)

RequestRead(p, U, N, FN) ==
    \/ call_list_files(p, U, N)
    \/ call_download_file(p, U, N, FN)

(* ---- one request at a time, no store failures ---- *)
SeqOwners == {"u1"}
SeqContents == {Content(1, "a"), Content(40, "b"), Content(50, "a"), Content(60, "a")}

NextSeq ==
    \/ /\ Quiet
       /\ \/ RequestWrite(1, SeqOwners, BucketNames, FileNames, SeqContents,
                          {"none"}, {"none"}, FALSE)
          \/ RequestRead(1, SeqOwners, BucketNames, FileNames)
       /\ pre' = Snapshot
       /\ UNCHANGED acked
    \/ StepWrite(1)
    \/ StepRead(1)
    \/ ReturnSeq(1)

SpecSeq == Init /\ [][NextSeq]_vars

(* ---- one request at a time, any one store call of it may fail ---- *)
FailContents == {Content(40, "a"), Content(60, "a")}
BucketFaults == {"none", "makedirs", "insert"}
UploadFaults == {"none", "write", "insert", "inc"}

NextFail ==
    \/ /\ Quiet
       /\ RequestWrite(1, SeqOwners, BucketNames, FileNames, FailContents,
                       BucketFaults, UploadFaults, FALSE)
       /\ pre' = Snapshot
       /\ UNCHANGED acked
    \/ StepWrite(1)
    \/ StepExcept(1)
    \/ ReturnSeq(1)

SpecFail == Init /\ [][NextFail]_vars

(* ---- one request at a time on buckets, names of any shape ---- *)
NameInputs == {"", " ", "-", "__", "b1", "a-1_", "a b", "a/b", "b<U+00E9>"}

StepBucket(p) ==
    \/ create_bucket_find(p) \/ create_bucket_makedirs(p) \/ create_bucket_insert(p)
    \/ delete_bucket_find(p) \/ delete_bucket_delete_many(p)
    \/ delete_bucket_rmtree(p) \/ delete_bucket_delete_one(p)

NextName ==
    \/ /\ Quiet
       /\ \/ call_create_bucket(1, Owners, NameInputs, {"none"})
          \/ call_delete_bucket(1, Owners, NameInputs)
       /\ pre' = Snapshot
       /\ UNCHANGED acked
    \/ StepBucket(1)
    \/ ReturnSeq(1)

SpecName == Init /\ [][NextName]_vars

(* ---- one request at a time, two owners, file names of any shape ---- *)
OwnerNames == {"b1"}
OwnerFileNames == {"f1", "../../u2/b1/f1"}
OwnerContents == {Content(40, "a"), Content(60, "b")}

NextOwner ==
    \/ /\ Quiet
       /\ \/ RequestWrite(1, Owners, OwnerNames, OwnerFileNames, OwnerContents,
                          {"none"}, {"none"}, FALSE)
          \/ RequestRead(1, Owners, OwnerNames, OwnerFileNames)
       /\ pre' = Snapshot
       /\ UNCHANGED acked
    \/ StepWrite(1)
    \/ upload_file_except(1)
    \/ StepRead(1)
    \/ ReturnSeq(1)

SpecOwner == Init /\ [][NextOwner]_vars

(* ---- one request at a time, every read endpoint, uploads may fail ---- *)
ReadContents == {Content(40, "a")}
ReadFaults == {"none", "inc"}
ReadOps == {"list_buckets", "get_bucket", "list_files", "download_file"}

NextRead ==
    \/ /\ Quiet
       /\ \/ call_create_bucket(1, SeqOwners, BucketNames, {"none"})
          \/ call_upload_file(1, SeqOwners, BucketNames, FileNames, ReadContents,
                              ReadFaults, FALSE)
          \/ RequestRead(1, SeqOwners, BucketNames, FileNames)
          \/ call_list_buckets(1, SeqOwners)
          \/ call_get_bucket(1, SeqOwners, BucketNames)
       /\ pre' = Snapshot
       /\ UNCHANGED acked
    \/ create_bucket_find(1) \/ create_bucket_makedirs(1) \/ create_bucket_insert(1)
    \/ StepUpload(1, MaxFileId)
    \/ upload_file_except(1)
    \/ StepRead(1)
    \/ list_buckets_list(1)
    \/ get_bucket_find(1)
    \/ ReturnSeq(1)

SpecRead == Init /\ [][NextRead]_vars

(* ---- concurrent requests, no injected failures ---- *)
ConcNames == {"b1"}
ConcContents == {Content(40, "a"), Content(60, "a")}

ConcProcs == {1, 2}

Next ==
    \E p \in ConcProcs :
        \/ /\ RequestWrite(p, SeqOwners, ConcNames, FileNames, ConcContents,
                           {"none"}, {"none"}, TRUE)
           /\ UNCHANGED <<pre, acked>>
        \/ StepWrite(p)
        \/ StepExcept(p)
        \/ Return(p)

Spec == Init /\ [][Next]_vars

(* ---- three uploads of one owner at once, on buckets created before ---- *)
QuotaContents == {Content(60, "a")}
(* The third client uploads to the second bucket. *)
QuotaNames(p) == IF p \in ConcProcs THEN {"b1"} ELSE {"b2"}

NextQuota ==
    \E p \in Procs :
        \/ /\ Quiet
           /\ call_create_bucket(p, SeqOwners, BucketNames, {"none"})
           /\ UNCHANGED <<pre, acked>>
        \/ /\ call_upload_file(p, SeqOwners, QuotaNames(p), FileNames, QuotaContents,
                               {"none"}, FALSE)
           /\ UNCHANGED <<pre, acked>>
        \/ create_bucket_find(p) \/ create_bucket_makedirs(p) \/ create_bucket_insert(p)
        \/ StepUpload(p, MaxQuotaFileId)
        \/ Return(p)

SpecQuota == Init /\ [][NextQuota]_vars

(* ---- batches of concurrent uploads and file deletions on one bucket ---- *)
(* A batch starts when every handler is free and ends when every response  *)
(* has been sent; pre is the state of the stores when the batch started.   *)
AllIdle == \A p \in Procs : proc[p].pc = "idle"

StepDeleteFile(p) ==
    \/ delete_file_find(p) \/ delete_file_find_doc(p) \/ delete_file_remove(p)
    \/ delete_file_delete_one(p) \/ delete_file_inc(p)

ReturnAll ==
    /\ Quiet
    /\ ~AllIdle
    /\ proc' = [p \in Procs |-> Idle]
    /\ pre' = NoSnapshot
    /\ UNCHANGED <<stores, acked>>

NextBatch ==
    \/ \E p \in ConcProcs :
          \/ /\ AllIdle
             /\ call_create_bucket(p, SeqOwners, ConcNames, {"none"})
             /\ pre' = Snapshot
             /\ UNCHANGED acked
          \/ /\ \/ call_upload_file(p, SeqOwners, ConcNames, FileNames, ConcContents,
                                    {"none"}, TRUE)
                \/ call_delete_file(p, SeqOwners, ConcNames, FileNames)
             /\ pre' = IF AllIdle THEN Snapshot ELSE pre
             /\ UNCHANGED acked
          \/ create_bucket_find(p) \/ create_bucket_makedirs(p) \/ create_bucket_insert(p)
          \/ StepUpload(p, MaxFileId)
          \/ StepDeleteFile(p)
    \/ ReturnAll

SpecBatch == Init /\ [][NextBatch]_vars

(* ---- concurrent create_bucket requests, makedirs may fail ---- *)
CreateFaults == {"none", "makedirs"}

NextCreate ==
    \E p \in ConcProcs :
        \/ /\ call_create_bucket(p, SeqOwners, BucketNames, CreateFaults)
           /\ UNCHANGED <<pre, acked>>
        \/ create_bucket_find(p) \/ create_bucket_makedirs(p) \/ create_bucket_insert(p)
        \/ create_bucket_except(p)
        \/ Return(p)

SpecCreate == Init /\ [][NextCreate]_vars

(* ---- delete_bucket against concurrent uploads, the bucket re-created ---- *)
StepDeleteBucket(p) ==
    \/ delete_bucket_find(p) \/ delete_bucket_delete_many(p)
    \/ delete_bucket_rmtree(p) \/ delete_bucket_delete_one(p)

NextCascade ==
    \E p \in ConcProcs :
        \/ /\ AllIdle
           /\ call_create_bucket(p, SeqOwners, ConcNames, {"none"})
           /\ UNCHANGED <<pre, acked>>
        \/ /\ \/ call_upload_file(p, SeqOwners, ConcNames, FileNames, ConcContents,
                                  {"none"}, TRUE)
              \/ call_delete_bucket(p, SeqOwners, ConcNames)
           /\ UNCHANGED <<pre, acked>>
        \/ create_bucket_find(p) \/ create_bucket_makedirs(p) \/ create_bucket_insert(p)
        \/ StepUpload(p, MaxFileId)
        \/ upload_file_except(p)
        \/ StepDeleteBucket(p)
        \/ Return(p)

SpecCascade == Init /\ [][NextCascade]_vars

(* ============================== claims =============================== *)
Done(p, op) == proc[p].op = op /\ proc[p].pc = "done"

FilesOf(fs, bucket_id) == {d \in fs : d.bucket_id = bucket_id}
BlobsUnder(bl, user_id, name) == {x \in Paths : x[1] = user_id /\ x[2] = name /\ bl[x] # Absent}

(* I1: the cached aggregates of every bucket equal the count and the sum   *)
(* over the FileRecords that reference it.                                 *)
I1 ==
    \A b \in buckets :
        /\ b.file_count = Cardinality(FilesOf(files, b.id))
        /\ b.total_size = SumSizes(FilesOf(files, b.id))

(* I2: every FileRecord has its blob, of the recorded length, and every    *)
(* blob has a FileRecord of the bucket that owns its directory.            *)
I2 ==
    /\ \A d \in files : blobs[d.file_path] # Absent /\ blobs[d.file_path].len = d.size
    /\ \A x \in Paths :
          blobs[x] # Absent =>
             \E d \in files, b \in buckets :
                /\ d.file_path = x /\ d.bucket_id = b.id /\ d.filename = x[3]
                /\ b.user_id = x[1] /\ b.name = x[2]

(* C1: one request at a time and no store failure: after each completed    *)
(* operation every bucket's file_count and total_size equal the count and  *)
(* the sum of sizes of its FileRecords.                                    *)
C1_AggregatesMatch == Quiet => I1

C1_Witness ==
    /\ Done(1, "delete_file") /\ proc[1].result = "ok"
    /\ \E b \in buckets : b.file_count = 1 /\ b.total_size = 60

(* C2: an upload on an existing bucket is refused with QuotaExceeded       *)
(* exactly when usage_before + size > STORAGE_LIMIT_BYTES (equality is     *)
(* accepted), and a refused upload changes nothing; with the quota of 100: *)
(* 60 passes on an empty account, 50 is refused at usage 60, 40 passes at  *)
(* usage 60, 1 is refused at usage 100.                                    *)
C2_QuotaAdmission ==
    \A p \in Procs :
        (Done(p, "upload_file") /\ proc[p].result # "NotFound") =>
           LET usage_before == SumSizes({d \in pre.files : d.user_id = proc[p].user})
               size == proc[p].file_content.len
               refused == proc[p].result = "QuotaExceeded"
           IN  /\ refused <=> usage_before + size > STORAGE_LIMIT_BYTES
               /\ refused => Snapshot = pre
               /\ (usage_before = 0 /\ size = 60) => ~refused
               /\ (usage_before = 60 /\ size = 50) => refused
               /\ (usage_before = 60 /\ size = 40) => ~refused
               /\ (usage_before = 100 /\ size = 1) => refused

(* The scenario's last step: 60 then 40 are stored (usage 100), 1 refused. *)
C2_Witness ==
    /\ Done(1, "upload_file") /\ proc[1].result = "QuotaExceeded"
    /\ proc[1].file_content.len = 1
    /\ {<<d.id, d.size>> : d \in files} = {<<1, 60>>, <<2, 40>>}

C4_ExactlyOneInsert ==
    \A p, q \in Procs :
        ( /\ p # q
          /\ Done(p, "upload_file") /\ Done(q, "upload_file")
          /\ proc[p].bucket_id = proc[q].bucket_id
          /\ proc[p].filename = proc[q].filename
          /\ proc[p].result = "ok" /\ proc[q].result = "ok" )
        => Cardinality(find_files(files, proc[p].bucket_id, proc[p].filename)) = 1

C6_Compensation ==
    \A p \in Procs :
        (Done(p, "upload_file") /\ proc[p].fault = "insert"
            /\ proc[p].result \notin {"NotFound", "QuotaExceeded", "AlreadyExists"})
        => /\ proc[p].result = "StorageError"
           /\ blobs[file_path(p)] = Absent
           /\ find_files(files, proc[p].bucket_id, proc[p].filename) = {}
           /\ buckets = pre.buckets
           /\ files = pre.files

(* C7: whichever store call of an upload fails, when the upload reports    *)
(* StorageError the FileRecords, the blobs and the aggregates agree.       *)
C7_FailedUploadRolledBack ==
    \A p \in Procs :
        (Done(p, "upload_file") /\ proc[p].result = "StorageError") => (I1 /\ I2)

(* C8: a download of a file whose upload was acknowledged, and that has    *)
(* not been deleted since, returns exactly the uploaded bytes; their       *)
(* length is the size of the FileRecord and the size list_files reports.   *)
C8_RoundTrip ==
    \A p \in Procs, a \in acked :
        /\ (Done(p, "download_file") /\ proc[p].file_doc.id = a.id) =>
              /\ proc[p].result = "ok"
              /\ proc[p].body = a.bytes
              /\ proc[p].file_doc.size = a.bytes.len
        /\ (Done(p, "list_files") /\ proc[p].result = "ok") =>
              \A e \in proc[p].listing : e.id = a.id => e.size = a.bytes.len

C8_Witness ==
    /\ Done(1, "download_file") /\ proc[1].result = "ok"
    /\ proc[1].body = Content(40, "b")
    /\ \E a \in acked : a.id = proc[1].file_doc.id
    /\ blobs[<<proc[1].user, proc[1].bucket_name, "f2">>] = Content(60, "a")

C10_BucketNameUnique ==
    \A b1, b2 \in buckets : (b1.user_id = b2.user_id /\ b1.name = b2.name) => b1.id = b2.id

(* The allowed pattern [A-Za-z0-9_-]+ *)
MatchesPattern(s) ==
    /\ s # <<>>
    /\ \A i \in 1..Len(s) : s[i] \in AsciiLetters \cup AsciiDigits \cup {"-", "_"}

(* C11: create_bucket rejects a name with InvalidName exactly when the     *)
(* name is empty or has a character outside [A-Za-z0-9_-] (so "-" and "__" *)
(* are accepted), and a rejected name leaves directories and Bucket        *)
(* documents as they were.                                                 *)
C11_NameValidation ==
    \A p \in Procs :
        Done(p, "create_bucket") =>
           /\ proc[p].result = "InvalidName"
                 <=> ~MatchesPattern(name_chars(proc[p].bucket_name))
           /\ proc[p].result = "InvalidName" => Snapshot = pre

(* The largest upload the clients send. *)
LargestUpload == CHOOSE n \in {c.len : c \in QuotaContents} :
                    \A c \in QuotaContents : c.len <= n

(* C12: under concurrent uploads of one owner the owner's usage never      *)
(* exceeds STORAGE_LIMIT_BYTES by more than the largest single upload, and *)
(* an upload whose admission check runs while usage is over the limit is   *)
(* refused with QuotaExceeded.                                             *)
C12_BoundedOvershoot ==
    [][ /\ \A u \in Owners :
             get_user_storage_usage(files', u) <= STORAGE_LIMIT_BYTES + LargestUpload
        /\ \A p \in Procs :
             ( /\ proc[p].pc = "uf_quota" /\ proc'[p].pc # "uf_quota"
               /\ get_user_storage_usage(files, proc[p].user) > STORAGE_LIMIT_BYTES )
             => proc'[p].result = "QuotaExceeded" ]_vars

(* What owner v has in a snapshot of the stores. *)
OwnedBy(snap, v) ==
    [buckets |-> {b \in snap.buckets : b.user_id = v},
     files |-> {d \in snap.files : d.user_id = v},
     dirs |-> {d \in snap.dirs : d[1] = v},
     blobs |-> [x \in {y \in Paths : y[1] = v} |-> snap.blobs[x]],
     usage |-> get_user_storage_usage(snap.files, v)]

(* C13: an operation of owner U leaves the Bucket documents, FileRecords,  *)
(* blobs and usage of every other owner V as they were, and reports        *)
(* NotFound when it names a bucket that U does not own.                    *)
C13_OwnerIsolation ==
    \A p \in Procs :
        proc[p].pc = "done" =>
           /\ \A v \in Owners \ {proc[p].user} : OwnedBy(Snapshot, v) = OwnedBy(pre, v)
           /\ ( /\ proc[p].op # "create_bucket"
                /\ find_buckets(pre.buckets, proc[p].bucket_name, proc[p].user) = {} )
              => proc[p].result = "NotFound"

(* C14: no step of list_buckets, get_bucket, list_files or download_file,  *)
(* from its call to its response, changes a Bucket document, a FileRecord, *)
(* a directory or a blob: whether it succeeds or reports NotFound, the     *)
(* FileRecord without blob included.                                       *)
C14_ReadsHaveNoEffect ==
    [][ \A p \in Procs :
           ( /\ proc[p].op \in ReadOps \/ proc'[p].op \in ReadOps
             /\ proc'[p] # proc[p] )
           => stores' = stores ]_vars

(* A download has found a FileRecord whose blob is missing. *)
C14_Witness ==
    /\ Done(1, "download_file") /\ proc[1].result = "NotFoundOnDisk"
    /\ \E d \in files : d.id = proc[1].file_doc.id /\ blobs[d.file_path] = Absent
    /\ Snapshot = pre

(* The operations of the batch that reported success on bucket id. *)
Succeeded(op, id) ==
    {p \in Procs : Done(p, op) /\ proc[p].result = "ok" /\ proc[p].bucket_id = id}

RECURSIVE SumOver(_, _)
SumOver(S, f) ==
    IF S = {} THEN 0
    ELSE LET x == CHOOSE y \in S : TRUE IN f[x] + SumOver(S \ {x}, f)

(* C15: when every upload and file deletion of a batch on one bucket has   *)
(* completed, the bucket's file_count and total_size are the values before *)
(* the batch, plus (1, size) for every upload that reported success, minus *)
(* (1, size of the deleted FileRecord) for every deletion that did.        *)
C15_NoLostUpdate ==
    Quiet =>
       \A b \in buckets, b0 \in pre.buckets :
           b.id = b0.id =>
              LET ups == Succeeded("upload_file", b.id)
                  dels == Succeeded("delete_file", b.id)
              IN  /\ b.file_count = b0.file_count + Cardinality(ups) - Cardinality(dels)
                  /\ b.total_size = b0.total_size
                        + SumOver(ups, [p \in Procs |-> proc[p].file_content.len])
                        - SumOver(dels, [p \in Procs |-> proc[p].file_doc.size])

(* C16: under concurrent create_bucket requests, one that fails at         *)
(* makedirs included, every Bucket document has its directory, and a       *)
(* create_bucket whose makedirs failed reports StorageError, inserts no     *)
(* Bucket document and removes no directory and no blob.                   *)
C16_BucketHasDirectory ==
    [][ /\ \A b \in buckets' : <<b.user_id, b.name>> \in dirs'
        /\ \A p \in Procs :
             (proc[p].pc = "cb_except" /\ proc'[p].pc = "done") =>
                /\ proc'[p].result = "StorageError"
                /\ buckets' = buckets
                /\ dirs' = dirs
                /\ blobs' = blobs ]_vars

(* C17: a delete_file that found its FileRecord and reports success has    *)
(* lowered the bucket's file_count by 1 and its total_size by the size     *)
(* recorded in that FileRecord, whatever is on disk at file_path.          *)
C17_DeleteUsesRecordedSize ==
    \A p \in Procs :
        (Done(p, "delete_file") /\ proc[p].result = "ok") =>
           \A b \in buckets, b0 \in pre.buckets :
               (b.id = proc[p].bucket_id /\ b0.id = b.id) =>
                  /\ b.file_count = b0.file_count - 1
                  /\ b.total_size = b0.total_size - proc[p].file_doc.size

(* C18: an upload that found its bucket and passed the quota check reports *)
(* AlreadyExists exactly when a FileRecord for (bucket, filename) exists   *)
(* at the time of its existence check, whatever is on disk at file_path.   *)
C18_ExistenceByMetadata ==
    [][ \A p \in Procs :
           (proc[p].pc = "uf_exists" /\ proc'[p].pc # "uf_exists") =>
              ( proc'[p].result = "AlreadyExists"
                  <=> find_files(files, proc[p].bucket_id, proc[p].filename) # {} ) ]_vars

(* C19: one request at a time: delete_bucket first deletes the            *)
(* FileRecords of the bucket, then the blob subtree, then the Bucket       *)
(* document, so that stopped after any of its steps it leaves no           *)
(* FileRecord of the bucket without blob: at worst blobs or the Bucket     *)
(* document remain.                                                        *)
C19_DeleteBucketOrder ==
    \A p \in Procs :
        LET id == proc[p].bucket_id
            under == BlobsUnder(blobs, proc[p].user, proc[p].bucket_name)
            there == \E b \in buckets : b.id = id
        IN
        (proc[p].op = "delete_bucket" /\ proc[p].result # "NotFound") =>
           /\ proc[p].pc = "db_delete_many" => Snapshot = pre
           /\ proc[p].pc = "db_rmtree" =>
                 FilesOf(files, id) = {} /\ blobs = pre.blobs /\ there
           /\ proc[p].pc = "db_delete_one" =>
                 FilesOf(files, id) = {} /\ under = {} /\ there
           /\ proc[p].pc = "done" =>
                 FilesOf(files, id) = {} /\ under = {} /\ ~there
           /\ proc[p].pc \in {"db_rmtree", "db_delete_one", "done"} =>
                 \A d \in files : d.bucket_id = id => blobs[d.file_path] # Absent

(* After its first step: the FileRecords of a bucket of two files are gone *)
(* and its blobs are still on disk.                                        *)
C19_Witness ==
    /\ proc[1].op = "delete_bucket" /\ proc[1].pc = "db_rmtree"
    /\ Cardinality(FilesOf(pre.files, proc[1].bucket_id)) = 2
    /\ Cardinality(BlobsUnder(blobs, proc[1].user, proc[1].bucket_name)) = 2

RECURSIVE SumTotalSize(_)
SumTotalSize(S) ==
    IF S = {} THEN 0
    ELSE LET b == CHOOSE x \in S : TRUE IN b.total_size + SumTotalSize(S \ {b})

(* C20: whenever no operation is in flight, for every owner the sum of the *)
(* sizes of the owner's FileRecords (what the admission check uses) equals *)
(* the sum of total_size over the owner's Bucket documents.                *)
C20_QuotaSumsAgree ==
    Quiet =>
       \A u \in Owners :
           get_user_storage_usage(files, u)
              = SumTotalSize({b \in buckets : b.user_id = u})

(* C21: whenever no operation is in flight, after a delete_bucket has run  *)
(* against concurrent uploads to the bucket (and the bucket was possibly   *)
(* created again), every FileRecord's bucket_id is the id of a Bucket      *)
(* document, and every blob under a bucket path has a FileRecord of the    *)
(* Bucket document that now has that name.                                 *)
C21_ReferentialIntegrity ==
    Quiet =>
       /\ \A d \in files : \E b \in buckets : b.id = d.bucket_id
       /\ \A x \in Paths :
             blobs[x] # Absent =>
                \E b \in buckets, d \in files :
                   /\ b.user_id = x[1] /\ b.name = x[2]
                   /\ d.bucket_id = b.id /\ d.file_path = x

(* C22: under concurrent uploads and file deletions, two deletions of one  *)
(* file included, no bucket has a negative file_count or total_size, and   *)
(* no two deletions that lowered the aggregates deleted the same           *)
(* FileRecord.                                                             *)
C22_AggregatesNotNegative ==
    /\ \A b \in buckets : b.file_count >= 0 /\ b.total_size >= 0
    /\ \A p, q \in Procs :
          ( /\ p # q
            /\ Done(p, "delete_file") /\ proc[p].result = "ok"
            /\ Done(q, "delete_file") /\ proc[q].result = "ok" )
          => proc[p].file_doc.id # proc[q].file_doc.id

====
